---- MODULE Spec2Model ----
(***************************************************************************)
(* Device layer of the front-end server (fesvr/device.cc): the per-device   *)
(* command table, the device registry, and the console (bcd_t), block       *)
(* (disk_t) and socket-bridge (char_t) devices.                             *)
(*                                                                          *)
(* Target memory is an array of cells.  A cell stands for one byte of a     *)
(* buffer or for one field of a request descriptor (the 64-bit fields of    *)
(* request_t are one cell each).  Strings are sequences of character codes. *)
(* The control thread is single-threaded: every handler runs to completion  *)
(* as one step.  A fatal condition (failed assert, thrown exception, memory *)
(* trap) ends the process: pc = "fatal" and nothing runs afterwards.        *)
(***************************************************************************)
EXTENDS Integers, Sequences, FiniteSets, TLC

VARIABLES
  devices,        \* device_list_t::devices, slot i of the vector at index i+1
  num_devices,    \* device_list_t::num_devices
  pc,             \* "run"; "fatal" once the process has been terminated;
                  \* "blocked" while the control thread waits inside a
                  \* system call that does not return
  mem,            \* target memory behind htif()->memif()
  pending_reads,  \* bcd_t::pending_reads
  term_in,        \* characters buffered in the host terminal, oldest first
  term_out,       \* characters emitted to the host terminal
  file,           \* contents of the disk_t backing file
  disk_size,      \* disk_t::size, the length recorded by the constructor
  fd,             \* char_t::fd, -1 when no connection is active
  backlog,        \* a peer is waiting in the listen queue of servfd
  peer_open,      \* the connected peer has not closed its end
  rx,             \* bytes sent by the peer and not yet read
  tx,             \* bytes the peer has received on the current connection
  char_fn,        \* the socket path given to the char_t constructor
  ncmd,           \* number of commands dispatched so far
  resp,           \* every respond() call so far: [cmd, val], in call order
  ticked,         \* devices whose tick() the last registry tick called, in order
  hist,           \* per dispatched command: the command, the state before it,
                  \* the outcome the OS gave its system call, and the memif
                  \* writes and respond() calls of its handler, in call order
  term_hist,      \* every character that arrived at the terminal, in order
  reg_log,        \* the devices register_device accepted, in call order
  last,           \* the kind of the last step: "init", "register", "command",
                  \* "tick" or "env"
  sys,            \* the socket system calls of the last command or tick and
                  \* what each returned, in call order
  conn            \* number of connections ::accept has returned so far

vars == <<devices, num_devices, pc, mem, pending_reads, term_in, term_out,
          file, disk_size, fd, backlog, peer_open, rx, tx, char_fn,
          ncmd, resp, ticked, hist, term_hist, reg_log, last, sys, conn>>

---------------------------------------------------------------------------
(* Sizes of the model *)

\* command_t::MAX_COMMANDS, command_t::MAX_DEVICES and IDENTITY_SIZE are set
\* in headers; the model runs them at these reduced values.
MAX_COMMANDS == 5
MAX_DEVICES == 4
IDENTITY_SIZE == 16

MaxConsoleCmds == 3   \* commands dispatched to the console in one run
MaxInput == 2         \* characters arriving at the terminal in one run
MaxFairCmds == 2      \* console commands in one run of the ticking main loop
MaxDiskCmds == 2      \* commands dispatched to the block device in one run
MaxCharCmds == 2      \* commands dispatched to the socket bridge in one run
MaxRx == 2            \* bytes the peer may have in flight
MaxIdentify == 1      \* identify commands dispatched in one run
MaxRegistryCmds == 1  \* commands dispatched through the bare registry in one run
MaxPollCmds == 2      \* poll commands dispatched in one run
MaxConnCmds == 2      \* commands dispatched in one run of connect and reconnect

---------------------------------------------------------------------------
(* Strings *)

Str_empty == <<>>
Str_read == <<114, 101, 97, 100>>
Str_write == <<119, 114, 105, 116, 101>>
Str_poll == <<112, 111, 108, 108>>
Str_identity == <<105, 100, 101, 110, 116, 105, 116, 121>>
Str_bcd == <<98, 99, 100>>
Str_disk_size == <<100, 105, 115, 107, 32, 115, 105, 122, 101, 61>>
Str_char_unix == <<99, 104, 97, 114, 32, 117, 110, 105, 120, 61>>

strlen(s) == Len(s)

RECURSIVE to_string(_)
to_string(n) ==
  IF n < 10 THEN <<48 + n>> ELSE Append(to_string(n \div 10), 48 + (n % 10))

Min(a, b) == IF a < b THEN a ELSE b

Zeros(n) == [i \in 1..n |-> 0]

\* char id[IDENTITY_SIZE] = {0}; strcpy(id, s)
strcpy_id(s) == s \o Zeros(IDENTITY_SIZE - Len(s))

---------------------------------------------------------------------------
(* Command tables *)

register_command(t, cmd, handler, name) ==
  IF ~(cmd < MAX_COMMANDS) \/ ~(strlen(name) < IDENTITY_SIZE)
  THEN [t EXCEPT !.ok = FALSE]
  ELSE [t EXCEPT !.command_handlers[cmd + 1] = handler,
                 !.command_names[cmd + 1] = name]

device_t_ctor ==
  register_command(
    [ok |-> TRUE,
     command_handlers |-> [c \in 1..MAX_COMMANDS |-> "handle_null_command"],
     command_names |-> [c \in 1..MAX_COMMANDS |-> Str_empty]],
    MAX_COMMANDS - 1, "handle_identify", Str_identity)

bcd_t_ctor ==
  register_command(
    register_command(device_t_ctor, 0, "bcd_handle_read", Str_read),
    1, "bcd_handle_write", Str_write)

disk_t_ctor ==
  register_command(
    register_command(device_t_ctor, 0, "disk_handle_read", Str_read),
    1, "disk_handle_write", Str_write)

char_t_ctor ==
  register_command(
    register_command(
      register_command(device_t_ctor, 0, "char_handle_read", Str_read),
      1, "char_handle_write", Str_write),
    2, "char_handle_poll", Str_poll)

\* The device objects: the registry's null_device, and one device of each class.
Devices == {"bcd", "disk", "chr", "dev"}

table(dev) ==
  CASE dev = "bcd" -> bcd_t_ctor
    [] dev = "disk" -> disk_t_ctor
    [] dev = "chr" -> char_t_ctor
    [] OTHER -> device_t_ctor

\* device_t::identity() and its overrides
identity(w, dev) ==
  CASE dev = "bcd" -> Str_bcd
    [] dev = "disk" -> Str_disk_size \o to_string(w.disk_size)
    [] dev = "chr" -> Str_char_unix \o w.char_fn
    [] OTHER -> Str_empty

---------------------------------------------------------------------------
(* The state as one record, so that handlers compose as the code's          *)
(* statements do                                                            *)

W ==
  [devices |-> devices, num_devices |-> num_devices, pc |-> pc, mem |-> mem,
   pending_reads |-> pending_reads, term_in |-> term_in, term_out |-> term_out,
   file |-> file, disk_size |-> disk_size, fd |-> fd, backlog |-> backlog,
   peer_open |-> peer_open, rx |-> rx, tx |-> tx, char_fn |-> char_fn,
   ncmd |-> ncmd, resp |-> resp, ops |-> <<>>, ticked |-> ticked,
   hist |-> hist, term_hist |-> term_hist, reg_log |-> reg_log, last |-> last,
   sys |-> <<>>, conn |-> conn]

Commit(w) ==
  /\ devices' = w.devices
  /\ num_devices' = w.num_devices
  /\ pc' = w.pc
  /\ mem' = w.mem
  /\ pending_reads' = w.pending_reads
  /\ term_in' = w.term_in
  /\ term_out' = w.term_out
  /\ file' = w.file
  /\ disk_size' = w.disk_size
  /\ fd' = w.fd
  /\ backlog' = w.backlog
  /\ peer_open' = w.peer_open
  /\ rx' = w.rx
  /\ tx' = w.tx
  /\ char_fn' = w.char_fn
  /\ ncmd' = w.ncmd
  /\ resp' = w.resp
  /\ ticked' = w.ticked
  /\ hist' = w.hist
  /\ term_hist' = w.term_hist
  /\ reg_log' = w.reg_log
  /\ last' = w.last
  /\ sys' = w.sys
  /\ conn' = w.conn

\* assert failure, uncaught exception or trap in the memory interface
Fatal(w) == [w EXCEPT !.pc = "fatal"]

\* a system call that has not returned: the control thread waits in it
Blocked(w) == [w EXCEPT !.pc = "blocked"]

\* the record of one socket system call and its result
syscall(w, call, rv, again, revents) ==
  [w EXCEPT !.sys = Append(@, [call |-> call, rv |-> rv, again |-> again,
                               revents |-> revents])]

\* cmd.respond(v)
respond(w, cmd, v) ==
  IF w.pc # "run" THEN w
  ELSE [w EXCEPT !.resp = Append(@, [cmd |-> cmd.no, val |-> v]),
                 !.ops = Append(@, [op |-> "respond", at |-> cmd.no, data |-> <<v>>])]

InMem(w, addr, n) == addr >= 0 /\ \A i \in 0..(n - 1) : (addr + i) \in DOMAIN w.mem

\* memif().read(addr, n, buf); the caller has checked InMem
memif_read(w, addr, n) == [i \in 1..n |-> w.mem[addr + i - 1]]

\* memif().write(addr, len, data)
memif_write(w, addr, data) ==
  IF w.pc # "run" THEN w
  ELSE IF ~InMem(w, addr, Len(data)) THEN Fatal(w)
  ELSE [w EXCEPT
          !.mem = [a \in DOMAIN w.mem |->
                     IF a >= addr /\ a < addr + Len(data)
                     THEN data[a - addr + 1] ELSE w.mem[a]],
          !.ops = Append(@, [op |-> "memwrite", at |-> addr, data |-> data])]

---------------------------------------------------------------------------
(* device_t *)

handle_null_command(w, cmd) == w

\* handle_identify taking every answer, its own identity too, from command_names
handle_identify_names_only(w, dev, cmd) ==
  LET what == cmd.payload % MAX_COMMANDS
      addr == cmd.payload \div MAX_COMMANDS
  IN
  IF addr % IDENTITY_SIZE # 0 THEN Fatal(w)
  ELSE respond(memif_write(w, addr, strcpy_id(table(dev).command_names[what + 1])),
               cmd, 1)

\* handle_identify without the alignment assertion
handle_identify_no_align(w, dev, cmd) ==
  LET what == cmd.payload % MAX_COMMANDS
      addr == cmd.payload \div MAX_COMMANDS
  IN
  IF what = MAX_COMMANDS - 1
  THEN IF ~(strlen(identity(w, dev)) < IDENTITY_SIZE) THEN Fatal(w)
       ELSE respond(memif_write(w, addr, strcpy_id(identity(w, dev))), cmd, 1)
  ELSE respond(memif_write(w, addr, strcpy_id(table(dev).command_names[what + 1])),
               cmd, 1)

handle_identify(w, dev, cmd) ==
  LET what == cmd.payload % MAX_COMMANDS
      addr == cmd.payload \div MAX_COMMANDS
  IN
  IF addr % IDENTITY_SIZE # 0 THEN Fatal(w)
  ELSE IF what = MAX_COMMANDS - 1 /\ ~(strlen(identity(w, dev)) < IDENTITY_SIZE)
  THEN Fatal(w)
  ELSE
    LET id == IF what = MAX_COMMANDS - 1
              THEN strcpy_id(identity(w, dev))
              ELSE strcpy_id(table(dev).command_names[what + 1])
    IN respond(memif_write(w, addr, id), cmd, 1)

---------------------------------------------------------------------------
(* bcd_t *)

bcd_handle_read(w, cmd) == [w EXCEPT !.pending_reads = Append(@, cmd)]

\* canonical_terminal_t::write takes a char: the low 8 bits of the payload
bcd_handle_write(w, cmd) ==
  respond([w EXCEPT !.term_out = Append(@, cmd.payload % 256)],
          cmd, 256 + (cmd.payload % 256))

\* canonical_terminal_t::read(): the oldest buffered character, or -1
terminal_read(w) == IF w.term_in = <<>> THEN -1 ELSE Head(w.term_in)

\* bcd_tick answering the newest pending read instead of the oldest
bcd_tick_newest(w) ==
  IF w.pending_reads # <<>> /\ terminal_read(w) # -1
  THEN LET ch == terminal_read(w)
           w1 == [w EXCEPT !.term_in = Tail(@)]
           w2 == respond(w1, w.pending_reads[Len(w.pending_reads)], 256 + ch)
       IN [w2 EXCEPT !.pending_reads = SubSeq(@, 1, Len(@) - 1)]
  ELSE w

\* bcd_tick reading the terminal before it looks at the FIFO
bcd_tick_eager(w) ==
  IF terminal_read(w) # -1
  THEN LET ch == terminal_read(w)
           w1 == [w EXCEPT !.term_in = Tail(@)]
       IN IF w.pending_reads # <<>>
          THEN [respond(w1, Head(w.pending_reads), 256 + ch)
                  EXCEPT !.pending_reads = Tail(@)]
          ELSE w1
  ELSE w

\* bcd_tick giving up the oldest pending read when no character is buffered
bcd_tick_drop(w) ==
  IF w.pending_reads # <<>>
  THEN IF terminal_read(w) # -1
       THEN LET ch == terminal_read(w)
                w1 == [w EXCEPT !.term_in = Tail(@)]
                w2 == respond(w1, Head(w.pending_reads), 256 + ch)
            IN [w2 EXCEPT !.pending_reads = Tail(@)]
       ELSE [w EXCEPT !.pending_reads = Tail(@)]
  ELSE w

bcd_tick(w) ==
  IF w.pending_reads # <<>> /\ terminal_read(w) # -1
  THEN LET ch == terminal_read(w)
           w1 == [w EXCEPT !.term_in = Tail(@)]
           w2 == respond(w1, Head(w.pending_reads), 256 + ch)
       IN [w2 EXCEPT !.pending_reads = Tail(@)]
  ELSE w

---------------------------------------------------------------------------
(* What the operating system answers to one system call.  err: the call     *)
(* fails with an errno other than EAGAIN/EWOULDBLOCK (pread and pwrite:    *)
(* fails or transfers short).  k: the number of bytes the socket is ready to take or *)
(* hand over in this call.  g: the indeterminate initial value of           *)
(* pfd.events in handle_poll.  nb: the connection descriptor is in          *)
(* non-blocking mode; ::accept leaves that to the platform (the descriptor  *)
(* inherits O_NONBLOCK from servfd on some systems and not on others, Linux *)
(* among them) and the code sets it on servfd only.                         *)

POLLIN == 1
POLLOUT == 4
POLLHUP == 16

HasBit(x, b) == (x \div b) % 2 = 1
OrBit(x, b) == IF HasBit(x, b) THEN x ELSE x + b

NoOc == [err |-> FALSE, k |-> 0, g |-> 0, nb |-> TRUE]
OcErr == [NoOc EXCEPT !.err = TRUE]

\* ::pread(fd, buf, count, offset) on a regular file: the bytes it returns
pread(w, count, offset, oc) ==
  IF oc.err THEN <<>>
  ELSE SubSeq(w.file, offset + 1, Min(offset + count, Len(w.file)))

\* ::pwrite(fd, buf, count, offset) on a regular file: the file afterwards
pwrite(w, buf, offset) ==
  LET newlen == IF Len(buf) > 0 /\ offset + Len(buf) > Len(w.file)
                THEN offset + Len(buf) ELSE Len(w.file)
  IN [i \in 1..newlen |->
        IF i > offset /\ i <= offset + Len(buf) THEN buf[i - offset]
        ELSE IF i <= Len(w.file) THEN w.file[i] ELSE 0]

\* the result of a call that does not return
WAITS == -2

\* ::read(fd, buf, size) on the connection: rv is -1 (errno says why), the
\* number of bytes handed over, or WAITS.  A read of no bytes returns 0.
sys_read(w, size, oc) ==
  IF oc.err THEN [rv |-> -1, again |-> FALSE]
  ELSE IF size = 0 THEN [rv |-> 0, again |-> FALSE]
  ELSE IF w.rx = <<>>
  THEN IF ~w.peer_open THEN [rv |-> 0, again |-> FALSE]
       ELSE IF oc.nb THEN [rv |-> -1, again |-> TRUE]
       ELSE [rv |-> WAITS, again |-> FALSE]
  ELSE [rv |-> Min(Min(size, Len(w.rx)), IF oc.k = 0 THEN 1 ELSE oc.k),
        again |-> FALSE]

\* ::write(fd, buf, size) on the connection
sys_write(w, size, oc) ==
  IF oc.err \/ ~w.peer_open THEN [rv |-> -1, again |-> FALSE]
  ELSE IF size = 0 THEN [rv |-> 0, again |-> FALSE]
  ELSE IF ~oc.nb /\ oc.k < size THEN [rv |-> WAITS, again |-> FALSE]
  ELSE IF oc.k = 0 THEN [rv |-> -1, again |-> TRUE]
  ELSE [rv |-> Min(size, oc.k), again |-> FALSE]

\* ::poll(&pfd, 1, 0): the return value and pfd.revents
sys_poll(w, events, oc) ==
  IF w.fd < 0 THEN [rv |-> 0, revents |-> 0]
  ELSE IF oc.err THEN [rv |-> -1, revents |-> 0]
  ELSE
    LET in == HasBit(events, POLLIN) /\ (w.rx # <<>> \/ ~w.peer_open)
        out == HasBit(events, POLLOUT) /\ w.peer_open /\ oc.k > 0
        hup == ~w.peer_open
        r == (IF in THEN POLLIN ELSE 0) + (IF out THEN POLLOUT ELSE 0)
             + (IF hup THEN POLLHUP ELSE 0)
    IN [rv |-> IF r = 0 THEN 0 ELSE 1, revents |-> r]

\* the descriptor ::accept returns for a new connection
ConnFd == 4

\* close(fd); fd = -1
close_fd(w) == [w EXCEPT !.fd = -1, !.peer_open = FALSE]

---------------------------------------------------------------------------
(* disk_t.  request_t is {addr, offset, size, tag}.                         *)

DISK_REQ_SIZE == 4

disk_req(w, p) ==
  [addr |-> w.mem[p], offset |-> w.mem[p + 1], size |-> w.mem[p + 2], tag |-> w.mem[p + 3]]

\* disk_handle_read reading the file from its start, whatever req.offset is
disk_handle_read_no_offset(w, cmd, oc) ==
  IF ~InMem(w, cmd.payload, DISK_REQ_SIZE) THEN Fatal(w)
  ELSE
    LET req == disk_req(w, cmd.payload)
        buf == pread(w, req.size, 0, oc)
    IN IF oc.err \/ Len(buf) # req.size THEN Fatal(w)
       ELSE respond(memif_write(w, req.addr, buf), cmd, req.tag)

\* disk_handle_read handing over whatever pread returned, short or not
disk_handle_read_short_ok(w, cmd, oc) ==
  IF ~InMem(w, cmd.payload, DISK_REQ_SIZE) THEN Fatal(w)
  ELSE
    LET req == disk_req(w, cmd.payload)
        buf == pread(w, req.size, req.offset, oc)
    IN respond(memif_write(w, req.addr, buf), cmd, req.tag)

disk_handle_read(w, cmd, oc) ==
  IF ~InMem(w, cmd.payload, DISK_REQ_SIZE) THEN Fatal(w)
  ELSE
    LET req == disk_req(w, cmd.payload)
        buf == pread(w, req.size, req.offset, oc)
    IN IF oc.err \/ Len(buf) # req.size THEN Fatal(w)
       ELSE respond(memif_write(w, req.addr, buf), cmd, req.tag)

disk_handle_write(w, cmd, oc) ==
  IF ~InMem(w, cmd.payload, DISK_REQ_SIZE) THEN Fatal(w)
  ELSE
    LET req == disk_req(w, cmd.payload)
    IN IF ~InMem(w, req.addr, req.size) THEN Fatal(w)
       ELSE LET buf == memif_read(w, req.addr, req.size)
            IN IF oc.err THEN Fatal(w)
               ELSE respond([w EXCEPT !.file = pwrite(w, buf, req.offset)], cmd, req.tag)

---------------------------------------------------------------------------
(* char_t.  request_t is {addr, size, tag}.                                 *)

CHAR_REQ_SIZE == 3
CHAR_POLLIN == 1
CHAR_POLLOUT == 2
CHAR_POLLHUP == 4

char_req(w, p) == [addr |-> w.mem[p], size |-> w.mem[p + 1], tag |-> w.mem[p + 2]]

char_req_cells(req) == <<req.addr, req.size, req.tag>>

\* char_handle_read leaving the descriptor alone when there is no connection
char_handle_read_no_writeback(w, cmd, oc) ==
  IF ~InMem(w, cmd.payload, CHAR_REQ_SIZE) THEN Fatal(w)
  ELSE
    LET req == char_req(w, cmd.payload) IN
    IF w.fd < 0
    THEN respond(w, cmd, req.tag)
    ELSE
      LET r == sys_read(w, req.size, oc)
          ws == syscall(w, "read", r.rv, r.again, 0)
          n == IF r.rv = -1 THEN 0 ELSE r.rv
          buf == SubSeq(w.rx, 1, n)
          w1 == IF r.rv = -1 THEN ws
                ELSE IF r.rv = 0 THEN close_fd(ws)
                ELSE memif_write([ws EXCEPT !.rx = SubSeq(@, n + 1, Len(@))],
                                 req.addr, buf)
      IN IF r.rv = WAITS THEN Blocked(ws)
         ELSE IF r.rv = -1 /\ ~r.again THEN Fatal(ws)
         ELSE respond(memif_write(w1, cmd.payload,
                                  char_req_cells([req EXCEPT !.size = n])),
                      cmd, req.tag)

\* char_handle_read writing back the requested size, not the transferred count
char_handle_read_stale_size(w, cmd, oc) ==
  IF ~InMem(w, cmd.payload, CHAR_REQ_SIZE) THEN Fatal(w)
  ELSE
    LET req == char_req(w, cmd.payload) IN
    IF w.fd < 0
    THEN respond(memif_write(w, cmd.payload, char_req_cells([req EXCEPT !.size = 0])),
                 cmd, req.tag)
    ELSE
      LET r == sys_read(w, req.size, oc)
          ws == syscall(w, "read", r.rv, r.again, 0)
          n == IF r.rv = -1 THEN 0 ELSE r.rv
          buf == SubSeq(w.rx, 1, n)
          w1 == IF r.rv = -1 THEN ws
                ELSE IF r.rv = 0 THEN close_fd(ws)
                ELSE memif_write([ws EXCEPT !.rx = SubSeq(@, n + 1, Len(@))],
                                 req.addr, buf)
      IN IF r.rv = WAITS THEN Blocked(ws)
         ELSE IF r.rv = -1 /\ ~r.again THEN Fatal(ws)
         ELSE respond(memif_write(w1, cmd.payload,
                                  char_req_cells(req)),
                      cmd, req.tag)

\* char_handle_read closing the descriptor without setting fd = -1
char_handle_read_keeps_fd(w, cmd, oc) ==
  IF ~InMem(w, cmd.payload, CHAR_REQ_SIZE) THEN Fatal(w)
  ELSE
    LET req == char_req(w, cmd.payload) IN
    IF w.fd < 0
    THEN respond(memif_write(w, cmd.payload, char_req_cells([req EXCEPT !.size = 0])),
                 cmd, req.tag)
    ELSE
      LET r == sys_read(w, req.size, oc)
          ws == syscall(w, "read", r.rv, r.again, 0)
          n == IF r.rv = -1 THEN 0 ELSE r.rv
          buf == SubSeq(w.rx, 1, n)
          w1 == IF r.rv = -1 THEN ws
                ELSE IF r.rv = 0 THEN [ws EXCEPT !.peer_open = FALSE]
                ELSE memif_write([ws EXCEPT !.rx = SubSeq(@, n + 1, Len(@))],
                                 req.addr, buf)
      IN IF r.rv = WAITS THEN Blocked(ws)
         ELSE IF r.rv = -1 /\ ~r.again THEN Fatal(ws)
         ELSE respond(memif_write(w1, cmd.payload,
                                  char_req_cells([req EXCEPT !.size = n])),
                      cmd, req.tag)

char_handle_read(w, cmd, oc) ==
  IF ~InMem(w, cmd.payload, CHAR_REQ_SIZE) THEN Fatal(w)
  ELSE
    LET req == char_req(w, cmd.payload) IN
    IF w.fd < 0
    THEN respond(memif_write(w, cmd.payload, char_req_cells([req EXCEPT !.size = 0])),
                 cmd, req.tag)
    ELSE
      LET r == sys_read(w, req.size, oc)
          ws == syscall(w, "read", r.rv, r.again, 0)
          n == IF r.rv = -1 THEN 0 ELSE r.rv
          buf == SubSeq(w.rx, 1, n)
          w1 == IF r.rv = -1 THEN ws
                ELSE IF r.rv = 0 THEN close_fd(ws)
                ELSE memif_write([ws EXCEPT !.rx = SubSeq(@, n + 1, Len(@))],
                                 req.addr, buf)
      IN IF r.rv = WAITS THEN Blocked(ws)
         ELSE IF r.rv = -1 /\ ~r.again THEN Fatal(ws)
         ELSE respond(memif_write(w1, cmd.payload,
                                  char_req_cells([req EXCEPT !.size = n])),
                      cmd, req.tag)

\* char_handle_write reducing req.size but not advancing req.addr
char_handle_write_no_advance(w, cmd, oc) ==
  IF ~InMem(w, cmd.payload, CHAR_REQ_SIZE) THEN Fatal(w)
  ELSE
    LET req == char_req(w, cmd.payload) IN
    IF w.fd < 0 THEN respond(w, cmd, req.tag)
    ELSE IF ~InMem(w, req.addr, req.size) THEN Fatal(w)
    ELSE
      LET buf == memif_read(w, req.addr, req.size)
          r == sys_write(w, req.size, oc)
          ws == syscall(w, "write", r.rv, r.again, 0)
          n == r.rv
      IN IF n = WAITS THEN Blocked(ws)
         ELSE IF n = -1
         THEN IF ~r.again THEN Fatal(ws) ELSE respond(ws, cmd, req.tag)
         ELSE IF n = 0 THEN respond(close_fd(ws), cmd, req.tag)
         ELSE respond(
                memif_write([ws EXCEPT !.tx = @ \o SubSeq(buf, 1, n)], cmd.payload,
                            char_req_cells([req EXCEPT !.size = @ - n])),
                cmd, req.tag)

\* char_handle_write taking the n = 0 of a would-block as the peer's closure
char_handle_write_close_on_again(w, cmd, oc) ==
  IF ~InMem(w, cmd.payload, CHAR_REQ_SIZE) THEN Fatal(w)
  ELSE
    LET req == char_req(w, cmd.payload) IN
    IF w.fd < 0 THEN respond(w, cmd, req.tag)
    ELSE IF ~InMem(w, req.addr, req.size) THEN Fatal(w)
    ELSE
      LET buf == memif_read(w, req.addr, req.size)
          r == sys_write(w, req.size, oc)
          ws == syscall(w, "write", r.rv, r.again, 0)
          n == r.rv
      IN IF n = WAITS THEN Blocked(ws)
         ELSE IF n = -1
         THEN IF ~r.again THEN Fatal(ws) ELSE respond(close_fd(ws), cmd, req.tag)
         ELSE IF n = 0 THEN respond(close_fd(ws), cmd, req.tag)
         ELSE respond(
                memif_write([ws EXCEPT !.tx = @ \o SubSeq(buf, 1, n)], cmd.payload,
                            char_req_cells([req EXCEPT !.size = @ - n, !.addr = @ + n])),
                cmd, req.tag)

char_handle_write(w, cmd, oc) ==
  IF ~InMem(w, cmd.payload, CHAR_REQ_SIZE) THEN Fatal(w)
  ELSE
    LET req == char_req(w, cmd.payload) IN
    IF w.fd < 0 THEN respond(w, cmd, req.tag)
    ELSE IF ~InMem(w, req.addr, req.size) THEN Fatal(w)
    ELSE
      LET buf == memif_read(w, req.addr, req.size)
          r == sys_write(w, req.size, oc)
          ws == syscall(w, "write", r.rv, r.again, 0)
          n == r.rv
      IN IF n = WAITS THEN Blocked(ws)
         ELSE IF n = -1
         THEN IF ~r.again THEN Fatal(ws) ELSE respond(ws, cmd, req.tag)
         ELSE IF n = 0 THEN respond(close_fd(ws), cmd, req.tag)
         ELSE respond(
                memif_write([ws EXCEPT !.tx = @ \o SubSeq(buf, 1, n)], cmd.payload,
                            char_req_cells([req EXCEPT !.size = @ - n, !.addr = @ + n])),
                cmd, req.tag)

\* char_handle_poll dropping the hangup bit of a ready descriptor
char_handle_poll_no_hup(w, cmd, oc) ==
  LET events == cmd.payload % 65536
      ev1 == IF HasBit(events, CHAR_POLLIN) THEN OrBit(oc.g, POLLIN) ELSE oc.g
      ev2 == IF HasBit(events, CHAR_POLLOUT) THEN OrBit(ev1, POLLOUT) ELSE ev1
      r == sys_poll(w, ev2, oc)
      ws == syscall(w, "poll", r.rv, FALSE, r.revents)
  IN IF r.rv = -1 THEN Fatal(ws)
     ELSE IF r.rv = 0 THEN respond(ws, cmd, CHAR_POLLHUP)
     ELSE IF r.rv = 1
     THEN respond(ws, cmd,
                  (IF HasBit(r.revents, POLLIN) THEN CHAR_POLLIN ELSE 0)
                  + (IF HasBit(r.revents, POLLOUT) THEN CHAR_POLLOUT ELSE 0)
                  + (IF HasBit(r.revents, POLLHUP) THEN 0 ELSE 0))
     ELSE Fatal(ws)

char_handle_poll(w, cmd, oc) ==
  LET events == cmd.payload % 65536
      ev1 == IF HasBit(events, CHAR_POLLIN) THEN OrBit(oc.g, POLLIN) ELSE oc.g
      ev2 == IF HasBit(events, CHAR_POLLOUT) THEN OrBit(ev1, POLLOUT) ELSE ev1
      r == sys_poll(w, ev2, oc)
      ws == syscall(w, "poll", r.rv, FALSE, r.revents)
  IN IF r.rv = -1 THEN Fatal(ws)
     ELSE IF r.rv = 0 THEN respond(ws, cmd, CHAR_POLLHUP)
     ELSE IF r.rv = 1
     THEN respond(ws, cmd,
                  (IF HasBit(r.revents, POLLIN) THEN CHAR_POLLIN ELSE 0)
                  + (IF HasBit(r.revents, POLLOUT) THEN CHAR_POLLOUT ELSE 0)
                  + (IF HasBit(r.revents, POLLHUP) THEN CHAR_POLLHUP ELSE 0))
     ELSE Fatal(ws)

\* char_tick accepting whether or not a connection is active
char_tick_always_accept(w, oc) ==
  IF oc.err THEN Fatal(syscall(w, "accept", -1, FALSE, 0))
  ELSE IF w.backlog
  THEN [syscall(w, "accept", ConnFd, FALSE, 0)
          EXCEPT !.fd = ConnFd, !.backlog = FALSE, !.peer_open = TRUE,
                 !.rx = <<>>, !.tx = <<>>, !.conn = @ + 1]
  ELSE IF w.fd = -1 THEN syscall(w, "accept", -1, TRUE, 0)
  ELSE w

char_tick(w, oc) ==
  IF w.fd = -1
  THEN IF oc.err THEN Fatal(syscall(w, "accept", -1, FALSE, 0))
       ELSE IF w.backlog
       THEN [syscall(w, "accept", ConnFd, FALSE, 0)
               EXCEPT !.fd = ConnFd, !.backlog = FALSE, !.peer_open = TRUE,
                      !.rx = <<>>, !.tx = <<>>, !.conn = @ + 1]
       ELSE syscall(w, "accept", -1, TRUE, 0)
  ELSE w

---------------------------------------------------------------------------
(* Dispatch and the registry *)

\* device_t::handle_command: command_handlers[cmd.cmd()](cmd)
device_handle_command(w, dev, cmd, oc) ==
  LET h == table(dev).command_handlers[cmd.cmd + 1] IN
  CASE h = "handle_identify" -> handle_identify(w, dev, cmd)
    [] h = "bcd_handle_read" -> bcd_handle_read(w, cmd)
    [] h = "bcd_handle_write" -> bcd_handle_write(w, cmd)
    [] h = "disk_handle_read" -> disk_handle_read(w, cmd, oc)
    [] h = "disk_handle_write" -> disk_handle_write(w, cmd, oc)
    [] h = "char_handle_read" -> char_handle_read(w, cmd, oc)
    [] h = "char_handle_write" -> char_handle_write(w, cmd, oc)
    [] h = "char_handle_poll" -> char_handle_poll(w, cmd, oc)
    [] OTHER -> handle_null_command(w, cmd)

\* the virtual tick() of each device class
device_tick(w, dev, oc) ==
  CASE dev = "bcd" -> bcd_tick(w)
    [] dev = "chr" -> char_tick(w, oc)
    [] OTHER -> w

device_list_t_ctor == [i \in 1..MAX_COMMANDS |-> "null_device"]

register_device(w, dev) ==
  LET n == w.num_devices + 1 IN
  IF ~(n < MAX_DEVICES) \/ n > Len(w.devices)
  THEN Fatal([w EXCEPT !.num_devices = n])
  ELSE [w EXCEPT !.num_devices = n, !.devices[n] = dev]

device_list_handle_command(w, cmd, oc) ==
  device_handle_command(w, w.devices[cmd.device + 1], cmd, oc)

RECURSIVE tick_from(_, _, _)
tick_from(w, i, oc) ==
  IF ~(i < w.num_devices) \/ w.pc = "fatal" THEN w
  ELSE tick_from(
         device_tick([w EXCEPT !.ticked = Append(@, w.devices[i + 1])],
                     w.devices[i + 1], oc),
         i + 1, oc)

\* device_list_tick starting its loop at slot 1
device_list_tick_from_1(w, oc) == tick_from(w, 1, oc)

device_list_tick(w, oc) == tick_from(w, 0, oc)

---------------------------------------------------------------------------
(* Steps of the control thread *)

Begin == [W EXCEPT !.ticked = <<>>]

\* the handler device_list_t::handle_command reaches for cmd
handler_of(devs, cmd) == table(devs[cmd.device + 1]).command_handlers[cmd.cmd + 1]

\* the answers the operating system can give the system call of cmd's handler
os_outcomes(cmd) ==
  LET h == handler_of(devices, cmd) IN
  CASE h \in {"disk_handle_read", "disk_handle_write"} -> {NoOc, OcErr}
    [] h = "char_handle_read" /\ fd >= 0 /\ InMem(W, cmd.payload, CHAR_REQ_SIZE) ->
         {OcErr} \cup {[NoOc EXCEPT !.k = k] : k \in 1..(IF Len(rx) = 0 THEN 1 ELSE Len(rx))}
         \cup (IF rx = <<>> /\ peer_open /\ mem[cmd.payload + 1] > 0
               THEN {[NoOc EXCEPT !.k = 1, !.nb = FALSE]} ELSE {})
    [] h = "char_handle_write" /\ fd >= 0 /\ InMem(W, cmd.payload, CHAR_REQ_SIZE) ->
         {OcErr} \cup {[NoOc EXCEPT !.k = k] : k \in 0..mem[cmd.payload + 1]}
         \cup (IF peer_open /\ mem[cmd.payload + 1] > 0
               THEN {[NoOc EXCEPT !.nb = FALSE]} ELSE {})
    [] h = "char_handle_poll" /\ fd >= 0 ->
         {OcErr} \cup [err : {FALSE}, k : {0, 1},
                       g : IF cmd.payload % 4 = CHAR_POLLIN + CHAR_POLLOUT
                           THEN {0} ELSE {0, POLLIN + POLLOUT},
                       nb : {TRUE}]
    [] OTHER -> {NoOc}

\* the answers the operating system can give the accept of a registry tick
tick_outcomes ==
  IF fd = -1 /\ \E i \in 1..num_devices : devices[i] = "chr"
  THEN {NoOc, OcErr} ELSE {NoOc}

Snapshot ==
  [mem |-> mem, file |-> file, fd |-> fd, tx |-> tx, rx |-> rx,
   peer_open |-> peer_open, backlog |-> backlog, devices |-> devices, num_devices |-> num_devices,
   pending_reads |-> pending_reads, nin |-> Len(term_hist), conn |-> conn]

\* device_list_t::register_device(dev)
RegisterDevice(dev) ==
  /\ pc = "run"
  /\ LET w1 == register_device([Begin EXCEPT !.last = "register"], dev)
     IN Commit(IF w1.pc = "run" THEN [w1 EXCEPT !.reg_log = Append(@, dev)] ELSE w1)

\* device_list_t::handle_command(cmd), cmd decoded by the transport as
\* {device d, command c, payload p}
HandleCommand(d, c, p) ==
  /\ pc = "run"
  /\ LET cmd == [no |-> ncmd + 1, device |-> d, cmd |-> c, payload |-> p] IN
     \E oc \in os_outcomes(cmd) :
       LET w1 == device_list_handle_command(
                   [Begin EXCEPT !.ncmd = ncmd + 1, !.last = "command"], cmd, oc)
       IN Commit([w1 EXCEPT !.hist = Append(@, [cmd |-> cmd, oc |-> oc,
                                                pre |-> Snapshot, ops |-> w1.ops,
                                                sys |-> w1.sys, fd_after |-> w1.fd])])

\* device_list_t::tick()
Tick ==
  /\ pc = "run"
  /\ \E oc \in tick_outcomes :
       Commit(device_list_tick([Begin EXCEPT !.last = "tick"], oc))

---------------------------------------------------------------------------
(* Steps of the environment *)

Chars == {97, 98}

\* a character is typed at the host terminal
TermInput(c) ==
  /\ pc = "run"
  /\ Len(term_hist) < MaxInput
  /\ Commit([W EXCEPT !.term_in = Append(@, c), !.term_hist = Append(@, c),
                     !.last = "env"])

\* a peer connects to the listening socket
PeerConnect ==
  /\ pc = "run"
  /\ ~backlog
  /\ Commit([W EXCEPT !.backlog = TRUE, !.last = "env"])

\* the connected peer, with nothing in flight, sends n bytes: 21, 22, ... on
\* the first connection, 41, 42, ... on the second, and so on
PeerSend(n) ==
  /\ pc = "run"
  /\ fd >= 0 /\ peer_open
  /\ rx = <<>>
  /\ Commit([W EXCEPT !.rx = [i \in 1..n |-> 20 * conn + i], !.last = "env"])

\* the connected peer closes its end
PeerClose ==
  /\ pc = "run"
  /\ fd >= 0 /\ peer_open
  /\ Commit([W EXCEPT !.peer_open = FALSE, !.last = "env"])

---------------------------------------------------------------------------
(* Initial states: the objects as their constructors leave them, and the    *)
(* inputs (target memory, backing file, socket path)                        *)

InitObjects ==
  /\ devices = device_list_t_ctor
  /\ num_devices = 0
  /\ pc = "run"
  /\ pending_reads = <<>>
  /\ term_in = <<>>
  /\ term_out = <<>>
  /\ fd = -1
  /\ backlog = FALSE
  /\ peer_open = FALSE
  /\ rx = <<>>
  /\ tx = <<>>
  /\ ncmd = 0
  /\ resp = <<>>
  /\ ticked = <<>>
  /\ hist = <<>>
  /\ term_hist = <<>>
  /\ reg_log = <<>>
  /\ last = "init"
  /\ sys = <<>>
  /\ conn = 0

Image(cells) == [a \in 0..(Len(cells) - 1) |-> cells[a + 1]]

Fn_short == <<115>>
Fn_long == <<47, 116, 109, 112, 47, 115, 111, 99, 107, 101, 116, 115, 47, 99, 104, 97, 114>>

---------------------------------------------------------------------------
(* The console on its own *)

InitConsole ==
  /\ InitObjects
  /\ mem = Image(<<0>>)
  /\ file = <<>> /\ disk_size = 0
  /\ char_fn = Fn_short

\* read, and write of a payload below and above 8 bits
ConsoleCommands == {<<0, 0>>, <<1, 65>>, <<1, 321>>}

NextConsole ==
  \/ num_devices = 0 /\ RegisterDevice("bcd")
  \/ \E cp \in ConsoleCommands :
       num_devices = 1 /\ ncmd < MaxConsoleCmds /\ HandleCommand(0, cp[1], cp[2])
  \/ Tick
  \/ \E c \in Chars : TermInput(c)

SpecConsole == InitConsole /\ [][NextConsole]_vars

\* The console with the main loop calling the registry's tick() again and
\* again: reads and a write, and one character value arriving at the terminal.
ConsoleFairCommands == {<<0, 0>>, <<1, 65>>}

NextConsoleFair ==
  \/ num_devices = 0 /\ RegisterDevice("bcd")
  \/ \E cp \in ConsoleFairCommands :
       num_devices = 1 /\ ncmd < MaxFairCmds /\ HandleCommand(0, cp[1], cp[2])
  \/ Tick
  \/ TermInput(97)

SpecConsoleFair == InitConsole /\ [][NextConsoleFair]_vars /\ WF_vars(Tick)

---------------------------------------------------------------------------
(* The block device on its own.  Target memory holds a write descriptor at  *)
(* 0, a read descriptor at 4 and data from 8 on; a buffer address may point *)
(* into a descriptor.                                                       *)

DiskImages ==
  UNION { { Image(<<ab, o, s, 71, a, o2, s, 72, 31, 32, 33, 34>>) :
              ab \in {8, 1}, s \in 0..2, a \in {10, 8, 5}, o2 \in {o, 2} } :
          o \in 0..1 }

DiskFiles == {<<>>, <<51>>, <<51, 52, 53>>}

InitDisk ==
  /\ InitObjects
  /\ mem \in DiskImages
  /\ file \in DiskFiles /\ disk_size = Len(file)
  /\ char_fn = Fn_short

NextDisk ==
  \/ num_devices = 0 /\ RegisterDevice("disk")
  \/ \E c \in {0, 1}, p \in {0, 4} :
       num_devices = 1 /\ ncmd < MaxDiskCmds /\ HandleCommand(0, c, p)
  \/ Tick

SpecDisk == InitDisk /\ [][NextDisk]_vars

---------------------------------------------------------------------------
(* The socket bridge on its own.  Target memory holds one descriptor at 0   *)
(* and data from 3 on; the buffer address may point into the descriptor.    *)

CharImages ==
  { Image(<<as[1], as[2], 9, 11, 12, 13>>) : as \in {<<3, 3>>, <<3, 0>>, <<0, 3>>, <<4, 3>>} }

InitChar ==
  /\ InitObjects
  /\ mem \in CharImages
  /\ file = <<>> /\ disk_size = 0
  /\ char_fn = Fn_short

CharCommands == ({0, 1} \X {0}) \cup ({2} \X {CHAR_POLLIN + CHAR_POLLOUT})

NextChar ==
  \/ num_devices = 0 /\ RegisterDevice("chr")
  \/ \E cp \in CharCommands :
       num_devices = 1 /\ ncmd < MaxCharCmds /\ HandleCommand(0, cp[1], cp[2])
  \/ Tick
  \/ fd = -1 /\ PeerConnect
  \/ \E n \in 1..MaxRx : PeerSend(n)
  \/ PeerClose

SpecChar == InitChar /\ [][NextChar]_vars

---------------------------------------------------------------------------
(* Poll on the socket bridge, with every combination of requested events    *)

InitPoll ==
  /\ InitObjects
  /\ mem = Image(<<0>>)
  /\ file = <<>> /\ disk_size = 0
  /\ char_fn = Fn_short

NextPoll ==
  \/ num_devices = 0 /\ RegisterDevice("chr")
  \/ \E events \in 0..(CHAR_POLLIN + CHAR_POLLOUT) :
       num_devices = 1 /\ ncmd < MaxPollCmds /\ HandleCommand(0, 2, events)
  \/ Tick
  \/ fd = -1 /\ PeerConnect
  \/ PeerSend(1)
  \/ PeerClose

SpecPoll == InitPoll /\ [][NextPoll]_vars

---------------------------------------------------------------------------
(* The socket bridge over several connections.  Target memory holds two     *)
(* descriptors, at 0 and at 3, for one byte at 6; peers may connect at any  *)
(* time.                                                                    *)

InitConn ==
  /\ InitObjects
  /\ mem = Image(<<6, 1, 9, 6, 1, 8, 11>>)
  /\ file = <<>> /\ disk_size = 0
  /\ char_fn = Fn_short

ConnCommands == ({0} \X {0, 3}) \cup {<<1, 3>>, <<2, CHAR_POLLIN>>}

NextConn ==
  \/ num_devices = 0 /\ RegisterDevice("chr")
  \/ \E cp \in ConnCommands :
       num_devices = 1 /\ ncmd < MaxConnCmds /\ HandleCommand(0, cp[1], cp[2])
  \/ Tick
  \/ PeerConnect
  \/ PeerSend(1)
  \/ PeerClose

SpecConn == InitConn /\ [][NextConn]_vars

---------------------------------------------------------------------------
(* Identify on every device class: the three devices registered in some     *)
(* order, the null device in the slots left                                 *)

IdentifyImage == Image([i \in 1..(2 * IDENTITY_SIZE) |-> 7])

InitIdentify ==
  /\ InitObjects
  /\ mem = IdentifyImage
  /\ \E in \in {<<<<>>, Fn_short>>, <<[i \in 1..12 |-> 51], Fn_long>>} :
       file = in[1] /\ char_fn = in[2]
  /\ disk_size = Len(file)

IdentifyPayloads ==
  { addr * MAX_COMMANDS + what : addr \in {0, IDENTITY_SIZE, 1}, what \in 0..(MAX_COMMANDS - 1) }

NextIdentify ==
  \/ \E dev \in {"bcd", "disk", "chr"} :
       /\ ncmd = 0
       /\ \A i \in 1..num_devices : devices[i] # dev
       /\ RegisterDevice(dev)
  \/ \E d \in 0..(MAX_DEVICES - 1), p \in IdentifyPayloads :
       ncmd < MaxIdentify /\ HandleCommand(d, MAX_COMMANDS - 1, p)

SpecIdentify == InitIdentify /\ [][NextIdentify]_vars

---------------------------------------------------------------------------
(* The registry: any devices registered in any order, any command to any    *)
(* slot                                                                     *)

InitRegistry ==
  /\ InitObjects
  /\ mem = Image([i \in 1..IDENTITY_SIZE |-> 0])
  /\ file = <<>> /\ disk_size = 0
  /\ char_fn = Fn_short

NextRegistry ==
  \/ \E dev \in {"bcd", "chr", "dev"} : ncmd = 0 /\ RegisterDevice(dev)
  \/ \E d \in 0..(MAX_DEVICES - 1), c \in 0..(MAX_COMMANDS - 1) :
       ncmd < MaxRegistryCmds /\ HandleCommand(d, c, 0)
  \/ Tick

SpecRegistry == InitRegistry /\ [][NextRegistry]_vars

---------------------------------------------------------------------------
(* Reading the history *)

\* the handler command h reached when it was dispatched
IsHandler(h, name) == handler_of(h.pre.devices, h.cmd) = name

\* the respond() calls made for command n, in call order
RespOf(n) == SelectSeq(resp, LAMBDA r : r.cmd = n)

EvWrite(addr, data) == [op |-> "memwrite", at |-> addr, data |-> data]
EvRespond(n, v) == [op |-> "respond", at |-> n, data |-> <<v>>]

Responds(h) == SelectSeq(h.ops, LAMBDA e : e.op = "respond")
MemWrites(h) == SelectSeq(h.ops, LAMBDA e : e.op = "memwrite")

---------------------------------------------------------------------------
(* C1: while the process runs, every dispatched command has been answered   *)
(* by exactly one respond() call, made inside its own dispatch, except a    *)
(* console read, which is answered at most once, never inside its dispatch, *)
(* and is unanswered exactly while it waits in the console's FIFO.          *)
C1_RespondExactlyOnce ==
  pc = "run" =>
    \A n \in 1..ncmd :
      LET h == hist[n]
          queued == \E i \in 1..Len(pending_reads) : pending_reads[i].no = n
      IN IF IsHandler(h, "bcd_handle_read")
         THEN /\ Len(Responds(h)) = 0
              /\ Len(RespOf(n)) <= 1
              /\ (Len(RespOf(n)) = 0) <=> queued
         ELSE /\ Len(Responds(h)) = 1
              /\ Len(RespOf(n)) = 1

---------------------------------------------------------------------------
(* C2: the j-th console read response, counted over the whole run, goes to  *)
(* the j-th console read dispatched and carries 0x100 | the j-th character  *)
(* that arrived at the terminal.                                            *)
ConsoleReads == SelectSeq(hist, LAMBDA h : IsHandler(h, "bcd_handle_read"))
ConsoleReadResps == SelectSeq(resp, LAMBDA r : IsHandler(hist[r.cmd], "bcd_handle_read"))

C2_ConsoleFifo ==
  /\ Len(ConsoleReadResps) <= Len(ConsoleReads)
  /\ Len(ConsoleReadResps) <= Len(term_hist)
  /\ \A j \in 1..Len(ConsoleReadResps) :
       /\ ConsoleReadResps[j].cmd = ConsoleReads[j].cmd.no
       /\ ConsoleReadResps[j].val = 256 + term_hist[j]

\* two reads dispatched before any input, a console write between them, two
\* different characters arrived and both reads answered
C2_Witness ==
  /\ ncmd = 3
  /\ IsHandler(hist[1], "bcd_handle_read")
  /\ IsHandler(hist[2], "bcd_handle_write")
  /\ IsHandler(hist[3], "bcd_handle_read")
  /\ hist[3].pre.nin = 0
  /\ Len(term_hist) = 2 /\ term_hist[1] # term_hist[2]
  /\ Len(ConsoleReadResps) = 2

---------------------------------------------------------------------------
(* C7: a command to a device id that was never registered writes no target  *)
(* memory, changes no device or registry state, and is responded to.        *)
C7_UnregisteredNoOpResponds ==
  \A n \in 1..ncmd :
    LET h == hist[n] IN
    h.cmd.device >= h.pre.num_devices =>
      /\ MemWrites(h) = <<>>
      /\ Len(RespOf(n)) = 1
      /\ (n = ncmd /\ last = "command") =>
           /\ pc = "run"
           /\ mem = h.pre.mem
           /\ devices = h.pre.devices /\ num_devices = h.pre.num_devices
           /\ pending_reads = h.pre.pending_reads
           /\ file = h.pre.file
           /\ fd = h.pre.fd

---------------------------------------------------------------------------
(* C8: every call of register_device up to the MAX_DEVICES-th succeeds and  *)
(* puts its device in the next slot; a call beyond that is fatal.           *)
C8_RegisterUpToCapacity ==
  [][num_devices' = num_devices + 1 =>
       IF num_devices' <= MAX_DEVICES
       THEN /\ pc' = "run"
            /\ Len(reg_log') = num_devices'
            /\ devices'[num_devices'] = reg_log'[num_devices']
       ELSE pc' = "fatal"]_vars

---------------------------------------------------------------------------
(* C9: a registry tick that completes has called tick() once for each       *)
(* registration, in registration order, and for nothing else.               *)
C9_TickRegisteredInOrder ==
  (last = "tick" /\ pc = "run") =>
    /\ Len(ticked) = num_devices
    /\ ticked = reg_log

\* a completed tick over three registered devices, not all the same
C9_Witness ==
  /\ last = "tick" /\ pc = "run"
  /\ Len(ticked) = 3
  /\ ticked[1] # ticked[2]

---------------------------------------------------------------------------
(* C3: when a block-device write with descriptor {T1, AB, O, S} is followed *)
(* by a block-device read with descriptor {T2, A, O, S}, target memory at   *)
(* [A, A+S) holds the S bytes that were at [AB, AB+S) when the write was    *)
(* dispatched, the write was answered T1 and the read T2.                   *)
C3_DiskRoundTrip ==
  (pc = "run" /\ ncmd >= 2) =>
    LET hw == hist[ncmd - 1]
        hr == hist[ncmd]
        wd == disk_req(hw.pre, hw.cmd.payload)
        rd == disk_req(hr.pre, hr.cmd.payload)
    IN (/\ IsHandler(hw, "disk_handle_write")
        /\ IsHandler(hr, "disk_handle_read")
        /\ rd.offset = wd.offset
        /\ rd.size = wd.size)
       => /\ [i \in 1..rd.size |-> mem[rd.addr + i - 1]]
               = [i \in 1..wd.size |-> hw.pre.mem[wd.addr + i - 1]]
          /\ RespOf(ncmd - 1) = <<[cmd |-> ncmd - 1, val |-> wd.tag]>>
          /\ RespOf(ncmd) = <<[cmd |-> ncmd, val |-> rd.tag]>>

\* two bytes written at offset 1 over a three-byte file and read back to
\* another address
C3_Witness ==
  /\ pc = "run" /\ ncmd = 2
  /\ IsHandler(hist[1], "disk_handle_write")
  /\ IsHandler(hist[2], "disk_handle_read")
  /\ hist[1].pre.file = <<51, 52, 53>>
  /\ disk_req(hist[1].pre, hist[1].cmd.payload).size = 2
  /\ disk_req(hist[1].pre, hist[1].cmd.payload).offset = 1
  /\ disk_req(hist[2].pre, hist[2].cmd.payload).offset = 1
  /\ disk_req(hist[1].pre, hist[1].cmd.payload).addr = 8
  /\ disk_req(hist[2].pre, hist[2].cmd.payload).addr = 10

---------------------------------------------------------------------------
(* C4: two socket-bridge writes through the same descriptor on an active    *)
(* connection.  The first finds {tag, A, S} and the OS takes k bytes of it, *)
(* 0 < k < S; the second is taken whole.                                    *)
C4_Accepted1 == Len(hist[ncmd].pre.tx) - Len(hist[ncmd - 1].pre.tx)
C4_Accepted2 == Len(tx) - Len(hist[ncmd].pre.tx)

C4_Case ==
  /\ pc = "run" /\ ncmd >= 2
  /\ IsHandler(hist[ncmd - 1], "char_handle_write")
  /\ IsHandler(hist[ncmd], "char_handle_write")
  /\ hist[ncmd - 1].cmd.payload = hist[ncmd].cmd.payload
  /\ hist[ncmd - 1].pre.fd >= 0 /\ hist[ncmd].pre.fd >= 0
  /\ C4_Accepted1 > 0
  /\ C4_Accepted1 < char_req(hist[ncmd - 1].pre, hist[ncmd - 1].cmd.payload).size
  /\ C4_Accepted2 = char_req(hist[ncmd].pre, hist[ncmd].cmd.payload).size

C4_Outcome ==
  LET h1 == hist[ncmd - 1]
      d1 == char_req(h1.pre, h1.cmd.payload)
  IN /\ char_req(hist[ncmd].pre, h1.cmd.payload)
          = [addr |-> d1.addr + C4_Accepted1, size |-> d1.size - C4_Accepted1,
             tag |-> d1.tag]
     /\ tx = h1.pre.tx \o [i \in 1..d1.size |-> h1.pre.mem[d1.addr + i - 1]]

\* the descriptor's address and size fields lie inside the buffer [A, A+S)
C4_Overlap ==
  LET h1 == hist[ncmd - 1]
      d1 == char_req(h1.pre, h1.cmd.payload)
  IN \E c \in {h1.cmd.payload, h1.cmd.payload + 1} :
       c >= d1.addr /\ c < d1.addr + d1.size

\* C4 as claimed: the descriptor is then {tag, A+k, S-k} and the peer has
\* received exactly the S bytes that were at [A, A+S), in order.
C4_PartialWriteResumes == C4_Case => C4_Outcome

\* C4 as amended: the same, for a buffer that does not hold the descriptor's
\* address or size field.
C4_PartialWriteResumesDisjoint == (C4_Case /\ ~C4_Overlap) => C4_Outcome

\* a 3-byte write of which 1 byte was taken, then the other 2
C4_Witness ==
  /\ C4_Case /\ ~C4_Overlap
  /\ C4_Accepted1 = 1 /\ C4_Accepted2 = 2
  /\ tx = <<11, 12, 13>>

---------------------------------------------------------------------------
(* C5: with no active connection, a socket-bridge read writes the           *)
(* descriptor back with size 0 and responds with the tag, a write only      *)
(* responds with the tag, a poll responds with the hangup bit alone, and    *)
(* none of them changes the connection state.                               *)
C5_DisconnectedCommands ==
  \A n \in 1..ncmd :
    LET h == hist[n]
        p == h.cmd.payload
        d == char_req(h.pre, p)
    IN h.pre.fd < 0 =>
         /\ IsHandler(h, "char_handle_read") =>
              h.ops = <<EvWrite(p, <<d.addr, 0, d.tag>>), EvRespond(n, d.tag)>>
         /\ IsHandler(h, "char_handle_write") =>
              h.ops = <<EvRespond(n, d.tag)>>
         /\ IsHandler(h, "char_handle_poll") =>
              h.ops = <<EvRespond(n, CHAR_POLLHUP)>>
         /\ (/\ n = ncmd /\ last = "command"
             /\ \E name \in {"char_handle_read", "char_handle_write", "char_handle_poll"} :
                  IsHandler(h, name))
            => /\ pc = "run"
               /\ fd = h.pre.fd
               /\ backlog = h.pre.backlog
               /\ peer_open = h.pre.peer_open

\* a poll and then a read of a 3-byte request, both with no connection
C5_Witness ==
  /\ ncmd = 2
  /\ hist[1].pre.fd < 0 /\ IsHandler(hist[1], "char_handle_poll")
  /\ hist[2].pre.fd < 0 /\ IsHandler(hist[2], "char_handle_read")
  /\ char_req(hist[2].pre, hist[2].cmd.payload).size = 3

---------------------------------------------------------------------------
(* C6: identify.                                                            *)

\* the names the constructors give: read and write on the console and the
\* block device; read, write and poll on the socket bridge
C6_RegisteredName(dev, what) ==
  CASE what = 0 /\ dev \in {"bcd", "disk", "chr"} -> Str_read
    [] what = 1 /\ dev \in {"bcd", "disk", "chr"} -> Str_write
    [] what = 2 /\ dev = "chr" -> Str_poll
    [] OTHER -> Str_empty

C6_ZeroPadded(str) == [i \in 1..IDENTITY_SIZE |-> IF i <= Len(str) THEN str[i] ELSE 0]

C6_Dev(h) == h.pre.devices[h.cmd.device + 1]
C6_What(h) == h.cmd.payload % MAX_COMMANDS
C6_Addr(h) == h.cmd.payload \div MAX_COMMANDS

C6_Answer(n) ==
  LET h == hist[n]
      str == IF C6_What(h) = MAX_COMMANDS - 1 THEN identity(W, C6_Dev(h))
             ELSE C6_RegisteredName(C6_Dev(h), C6_What(h))
  IN h.ops = <<EvWrite(C6_Addr(h), C6_ZeroPadded(str)), EvRespond(n, 1)>>

\* C6 as claimed: every identify command with an aligned address writes the
\* zero-padded name, or the zero-padded identity, and responds 1.
C6_Identify ==
  \A n \in 1..ncmd :
    (IsHandler(hist[n], "handle_identify") /\ C6_Addr(hist[n]) % IDENTITY_SIZE = 0) => C6_Answer(n)

\* C6 as amended: the same, when the identity asked for is shorter than
\* IDENTITY_SIZE.
C6_IdentifyShortIdentity ==
  \A n \in 1..ncmd :
    (/\ IsHandler(hist[n], "handle_identify")
     /\ C6_Addr(hist[n]) % IDENTITY_SIZE = 0
     /\ C6_What(hist[n]) = MAX_COMMANDS - 1
          => Len(identity(W, C6_Dev(hist[n]))) < IDENTITY_SIZE)
    => C6_Answer(n)

\* the block device, backed by a 12-byte file, asked for its identity
C6_Witness ==
  \E n \in 1..ncmd :
    /\ IsHandler(hist[n], "handle_identify")
    /\ C6_Dev(hist[n]) = "disk" /\ disk_size = 12
    /\ C6_What(hist[n]) = MAX_COMMANDS - 1
    /\ C6_Addr(hist[n]) = IDENTITY_SIZE
    /\ Len(hist[n].ops) = 2

---------------------------------------------------------------------------
(* C10: a socket-bridge read on an active connection that is not fatal      *)
(* transfers n bytes, n at most the requested size and 0 when the peer has  *)
(* sent nothing; it writes exactly those n bytes at the target address,     *)
(* then writes the descriptor back with size n and tag and address as they  *)
(* were, then responds with the tag.                                        *)
C10_ReadWritesBackCount ==
  (/\ last = "command" /\ pc = "run"
   /\ IsHandler(hist[ncmd], "char_handle_read")
   /\ hist[ncmd].pre.fd >= 0)
  => LET h == hist[ncmd]
         p == h.cmd.payload
         d == char_req(h.pre, p)
         n == Len(h.pre.rx) - Len(rx)
     IN /\ n >= 0 /\ n <= d.size
        /\ rx = SubSeq(h.pre.rx, n + 1, Len(h.pre.rx))
        /\ h.pre.rx = <<>> => n = 0
        /\ (h.pre.rx # <<>> /\ d.size > 0) => n > 0
        /\ h.ops = (IF n > 0 THEN <<EvWrite(d.addr, SubSeq(h.pre.rx, 1, n))>> ELSE <<>>)
                   \o <<EvWrite(p, <<d.addr, n, d.tag>>), EvRespond(ncmd, d.tag)>>
        /\ char_req(W, p) = [addr |-> d.addr, size |-> n, tag |-> d.tag]

\* a read of up to 3 bytes that found 2
C10_Witness ==
  /\ last = "command" /\ pc = "run"
  /\ IsHandler(hist[ncmd], "char_handle_read")
  /\ hist[ncmd].pre.fd >= 0
  /\ char_req(hist[ncmd].pre, hist[ncmd].cmd.payload).size = 3
  /\ Len(hist[ncmd].pre.rx) - Len(rx) = 2

---------------------------------------------------------------------------
(* C11: whenever the socket bridge's connection goes from active to         *)
(* inactive, the step is a read or write command and the peer had closed    *)
(* the connection before it; a connection whose peer is still open is never *)
(* deactivated, whatever the descriptor holds.                              *)
C11_TeardownOnlyOnPeerClose ==
  [][(fd >= 0 /\ fd' < 0) =>
       /\ last' = "command"
       /\ \/ IsHandler(hist'[ncmd'], "char_handle_read")
          \/ IsHandler(hist'[ncmd'], "char_handle_write")
       /\ ~peer_open]_vars

---------------------------------------------------------------------------
(* C12: a block-device read whose range [offset, offset+count) extends past *)
(* the end of the backing file, and any block-device read or write for      *)
(* which the file call fails or transfers fewer bytes than count, is fatal; *)
(* its handler writes nothing to target memory and sends no response.       *)
C12_Short ==
  LET h == hist[ncmd]
      d == disk_req(h.pre, h.cmd.payload)
  IN \/ /\ IsHandler(h, "disk_handle_read")
        /\ \/ d.size > 0 /\ d.offset + d.size > Len(h.pre.file)
           \/ h.oc.err
     \/ /\ IsHandler(h, "disk_handle_write")
        /\ h.oc.err

C12_ShortTransferFatal ==
  (last = "command" /\ C12_Short) =>
    /\ pc = "fatal"
    /\ hist[ncmd].ops = <<>>
    /\ mem = hist[ncmd].pre.mem
    /\ RespOf(ncmd) = <<>>

\* a read of 2 bytes at offset 2 of a 3-byte file, which the OS serves as far
\* as the file goes
C12_Witness ==
  /\ last = "command"
  /\ IsHandler(hist[ncmd], "disk_handle_read")
  /\ ~hist[ncmd].oc.err
  /\ Len(hist[ncmd].pre.file) = 3
  /\ disk_req(hist[ncmd].pre, hist[ncmd].cmd.payload).size = 2
  /\ disk_req(hist[ncmd].pre, hist[ncmd].cmd.payload).offset = 2
  /\ pc = "fatal"

---------------------------------------------------------------------------
(* C13: a poll command makes one OS poll call.  When that returns 0 the     *)
(* response is the hangup bit alone; when it returns 1 the response has the *)
(* device-local readable, writable and hangup bit exactly where the         *)
(* returned events have the OS bit, and no other bit; any other return      *)
(* value is fatal with no response.                                         *)
C13_PollMapping ==
  \A n \in 1..ncmd :
    IsHandler(hist[n], "char_handle_poll") =>
      LET h == hist[n]
          p == h.sys[1]
      IN /\ Len(h.sys) = 1 /\ p.call = "poll"
         /\ MemWrites(h) = <<>>
         /\ p.rv = 0 => h.ops = <<EvRespond(n, CHAR_POLLHUP)>>
         /\ p.rv = 1 =>
              \E v \in 0..(CHAR_POLLIN + CHAR_POLLOUT + CHAR_POLLHUP) :
                /\ h.ops = <<EvRespond(n, v)>>
                /\ HasBit(v, CHAR_POLLIN) <=> HasBit(p.revents, POLLIN)
                /\ HasBit(v, CHAR_POLLOUT) <=> HasBit(p.revents, POLLOUT)
                /\ HasBit(v, CHAR_POLLHUP) <=> HasBit(p.revents, POLLHUP)
         /\ p.rv \notin {0, 1} => h.ops = <<>> /\ pc = "fatal"

\* a poll for readability after the peer has closed: the OS reports the
\* descriptor readable and hung up
C13_Witness ==
  \E n \in 1..ncmd :
    /\ IsHandler(hist[n], "char_handle_poll")
    /\ hist[n].sys[1].rv = 1
    /\ hist[n].sys[1].revents = POLLIN + POLLHUP
    /\ hist[n].ops = <<EvRespond(n, CHAR_POLLIN + CHAR_POLLHUP)>>

---------------------------------------------------------------------------
(* C14: an identify command whose address, payload div MAX_COMMANDS, is not *)
(* a multiple of IDENTITY_SIZE is fatal: its handler writes nothing to      *)
(* target memory and does not respond.                                      *)
C14_MisalignedIdentifyFatal ==
  \A n \in 1..ncmd :
    (/\ IsHandler(hist[n], "handle_identify")
     /\ (hist[n].cmd.payload \div MAX_COMMANDS) % IDENTITY_SIZE # 0)
    => /\ pc = "fatal"
       /\ hist[n].ops = <<>>
       /\ mem = hist[n].pre.mem
       /\ RespOf(n) = <<>>

\* the block device asked for the name of its command 1 at address 1
C14_Witness ==
  \E n \in 1..ncmd :
    /\ IsHandler(hist[n], "handle_identify")
    /\ hist[n].pre.devices[hist[n].cmd.device + 1] = "disk"
    /\ hist[n].cmd.payload = MAX_COMMANDS + 1
    /\ pc = "fatal"

---------------------------------------------------------------------------
(* C15: the socket bridge holds at most one connection, and none is lost:   *)
(* every connection accepted so far has been torn down by a command, except *)
(* the one that is active.  A tick on an active connection makes no accept  *)
(* call and leaves the connection as it is, a pending peer included; a tick *)
(* with no connection makes one accept call, takes the pending peer if      *)
(* there is one, and otherwise stays inactive, without error when accept    *)
(* reports that nothing is pending.                                         *)
C15_Teardowns == Cardinality({n \in 1..ncmd : hist[n].pre.fd >= 0 /\ hist[n].fd_after < 0})

C15_AtMostOneConnection ==
  /\ [](pc = "run" => conn = C15_Teardowns + (IF fd >= 0 THEN 1 ELSE 0))
  /\ [][(last' = "tick" /\ num_devices = 1) =>
          /\ fd >= 0 =>
               /\ sys' = <<>> /\ pc' = "run"
               /\ fd' = fd /\ conn' = conn /\ backlog' = backlog
               /\ peer_open' = peer_open /\ rx' = rx /\ tx' = tx
          /\ fd < 0 =>
               /\ Len(sys') = 1 /\ sys'[1].call = "accept"
               /\ IF sys'[1].rv >= 0
                  THEN /\ backlog /\ ~backlog'
                       /\ fd' = sys'[1].rv /\ conn' = conn + 1 /\ pc' = "run"
                  ELSE /\ fd' = -1 /\ conn' = conn /\ backlog' = backlog
                       /\ pc' = IF sys'[1].again THEN "run" ELSE "fatal"
          /\ (fd < 0 /\ ~backlog) =>
               /\ fd' = -1
               /\ sys'[1].rv = -1
               /\ sys'[1].again => pc' = "run"]_vars

\* a tick that found a connection active and a second peer pending, and left
\* both as they were
C15_Witness ==
  /\ last = "tick" /\ pc = "run"
  /\ fd >= 0 /\ backlog /\ conn = 1
  /\ sys = <<>>
  /\ rx # <<>>

---------------------------------------------------------------------------
(* C16: once a read or write command has seen its system call return 0,     *)
(* every following command finds no connection, and behaves so (a read      *)
(* writes back size 0, a write moves no data, a poll responds hangup), for  *)
(* as long as no tick has accepted a new peer; the first command after a    *)
(* tick has accepted one works on the new connection.                       *)
C16_SawClosure(n) ==
  /\ Len(hist[n].sys) = 1
  /\ hist[n].sys[1].call \in {"read", "write"}
  /\ hist[n].sys[1].rv = 0

C16_Disconnected(m) ==
  LET h == hist[m]
      p == h.cmd.payload
      d == char_req(h.pre, p)
  IN /\ h.pre.fd < 0
     /\ IsHandler(h, "char_handle_read") =>
          /\ h.sys = <<>>
          /\ h.ops = <<EvWrite(p, <<d.addr, 0, d.tag>>), EvRespond(m, d.tag)>>
     /\ IsHandler(h, "char_handle_write") =>
          /\ h.sys = <<>>
          /\ h.ops = <<EvRespond(m, d.tag)>>
     /\ IsHandler(h, "char_handle_poll") => h.ops = <<EvRespond(m, CHAR_POLLHUP)>>

\* bytes of the c-th connection, as its peer sends them
C16_BytesOf(c) == (20 * c + 1)..(20 * c + 19)

C16_OnNewConnection(m) ==
  LET h == hist[m] IN
  /\ h.pre.fd >= 0
  /\ Len(h.sys) = 1
  /\ \A i \in 1..Len(h.pre.rx) : h.pre.rx[i] \in C16_BytesOf(h.pre.conn)
  /\ (IsHandler(h, "char_handle_read") /\ h.sys[1].rv > 0) =>
       /\ h.sys[1].call = "read"
       /\ h.ops[1] = EvWrite(char_req(h.pre, h.cmd.payload).addr,
                             SubSeq(h.pre.rx, 1, h.sys[1].rv))
  /\ (IsHandler(h, "char_handle_write") /\ h.sys[1].rv > 0) =>
       /\ h.sys[1].call = "write"
       /\ m = ncmd => Len(tx) = Len(h.pre.tx) + h.sys[1].rv

C16_DisconnectedUntilAccept ==
  \A n \in 1..ncmd : \A m \in (n + 1)..ncmd :
    C16_SawClosure(n) =>
      /\ hist[m].pre.conn = hist[n].pre.conn => C16_Disconnected(m)
      /\ hist[m].pre.conn > hist[m - 1].pre.conn => C16_OnNewConnection(m)

\* a read that saw the first peer's closure, then a tick that accepted a
\* second peer, then a read that received the second peer's byte
C16_Witness ==
  /\ ncmd = 2 /\ pc = "run"
  /\ C16_SawClosure(1) /\ ~hist[1].pre.peer_open
  /\ hist[1].pre.conn = 1 /\ hist[2].pre.conn = 2
  /\ IsHandler(hist[2], "char_handle_read")
  /\ hist[2].ops[1] = EvWrite(6, <<41>>)

---------------------------------------------------------------------------
(* C17: a socket-bridge write on an active connection whose ::write fails   *)
(* with EAGAIN/EWOULDBLOCK sends nothing, writes nothing to target memory   *)
(* (the descriptor keeps its tag, address and size), keeps the connection   *)
(* and responds with the tag.                                               *)
C17_WouldBlock(n) ==
  /\ IsHandler(hist[n], "char_handle_write")
  /\ hist[n].pre.fd >= 0
  /\ hist[n].sys = <<[call |-> "write", rv |-> -1, again |-> TRUE, revents |-> 0]>>

C17_WouldBlockWriteKeepsDescriptor ==
  \A n \in 1..ncmd :
    C17_WouldBlock(n) =>
      LET h == hist[n]
          d == char_req(h.pre, h.cmd.payload)
      IN /\ h.ops = <<EvRespond(n, d.tag)>>
         /\ h.fd_after = h.pre.fd
         /\ (n = ncmd /\ last = "command") =>
              /\ pc = "run"
              /\ mem = h.pre.mem
              /\ char_req(W, h.cmd.payload) = d
              /\ tx = h.pre.tx
              /\ fd = h.pre.fd /\ peer_open

\* a write of 3 bytes that would block, as the first command on a connection
C17_Witness ==
  /\ last = "command" /\ ncmd = 1
  /\ C17_WouldBlock(1)
  /\ char_req(hist[1].pre, 0).size = 3
  /\ resp = <<[cmd |-> 1, val |-> 9]>>

---------------------------------------------------------------------------
(* C18: a console tick consumes as many input characters as it answers      *)
(* pending reads, and that number is 0 or 1: with an empty FIFO it leaves   *)
(* the buffered input as it is, with no buffered input it leaves the FIFO   *)
(* as it is and responds to nothing, and otherwise it takes the oldest      *)
(* character for the oldest read.                                           *)
C18_TickOneForOne ==
  [][last' = "tick" =>
       LET consumed == Len(term_in) - Len(term_in')
           answered == Len(pending_reads) - Len(pending_reads')
           sent == Len(resp') - Len(resp)
       IN /\ consumed = answered /\ answered = sent
          /\ consumed \in {0, 1}
          /\ pending_reads = <<>> => term_in' = term_in
          /\ term_in = <<>> => pending_reads' = pending_reads /\ resp' = resp
          /\ consumed = 0 => term_in' = term_in /\ pending_reads' = pending_reads
          /\ consumed = 1 => /\ term_in' = Tail(term_in)
                             /\ pending_reads' = Tail(pending_reads)]_vars

\* two characters arrived before any read was queued; ticks kept them, and
\* after the read a tick has answered it with the first and kept the second
C18_Witness ==
  /\ last = "tick"
  /\ Len(ConsoleReadResps) = 1
  /\ hist[ConsoleReadResps[1].cmd].pre.nin = 2
  /\ ConsoleReadResps[1].val = 256 + term_hist[1]
  /\ term_in = <<term_hist[2]>>

---------------------------------------------------------------------------
(* C19: the console's FIFO changes only by a read command joining at the    *)
(* back or by a tick responding to the read at the front and removing it;   *)
(* and, the main loop ticking again and again, a queued read with at least  *)
(* as many characters buffered as there are reads up to it in the FIFO is   *)
(* eventually responded to.                                                 *)
C19_QueuedReadAnswered ==
  /\ [][\/ pending_reads' = pending_reads
        \/ /\ last' = "command"
           /\ IsHandler(hist'[ncmd'], "bcd_handle_read")
           /\ pending_reads' = Append(pending_reads, hist'[ncmd'].cmd)
           /\ resp' = resp
        \/ /\ last' = "tick"
           /\ pending_reads # <<>>
           /\ pending_reads' = Tail(pending_reads)
           /\ Len(resp') = Len(resp) + 1
           /\ resp'[Len(resp')].cmd = Head(pending_reads).no]_vars
  /\ \A n \in 1..MaxFairCmds :
       (\E i \in 1..Len(pending_reads) :
          pending_reads[i].no = n /\ Len(term_in) >= i)
       ~> (Len(RespOf(n)) = 1)

\* a read that was queued behind another read and has been responded to
C19_Witness ==
  /\ ncmd >= 2
  /\ IsHandler(hist[1], "bcd_handle_read")
  /\ IsHandler(hist[2], "bcd_handle_read")
  /\ Len(hist[2].pre.pending_reads) = 1
  /\ Len(RespOf(2)) = 1

---------------------------------------------------------------------------
(* C20: no socket-bridge handler blocks: every read, write and poll         *)
(* command and every tick completes within its own call, so the program is  *)
(* never left waiting inside a socket call; a read on an active connection  *)
(* whose peer has sent nothing responds with size 0 and a write to a peer   *)
(* that is not draining responds with the descriptor as it was.             *)
C20_NoHandlerBlocks ==
  /\ pc # "blocked"
  /\ \A n \in 1..ncmd :
       LET h == hist[n] IN
       h.cmd.device = 0 /\ h.cmd.cmd \in 0..2 /\ h.pre.fd >= 0
         => \A i \in 1..Len(h.sys) : h.sys[i].rv # WAITS

====
